---- MODULE Spec2Model ----
(***************************************************************************)
(* Model of scripts/arraigo_etl.py: the BORME document run (etl_borme),    *)
(* the regional listing run (etl_regional), the store operations they      *)
(* call (upsert_company, insert_event, insert_signal, recompute_scores)    *)
(* and the pure helpers (norm_text, make_company_key, detect_signals).     *)
(*                                                                         *)
(* Strings are sequences of one-character strings, so that trimming,       *)
(* lower-casing, whitespace collapsing and regular-expression search are   *)
(* computed and not assumed.  The store is four sets of rows.  A run works *)
(* on the connection's uncommitted view `tx`; `db` is the committed state. *)
(* Dates and the raw_excerpt/notes columns are left out of the rows: no    *)
(* statement of the program reads them back.                               *)
(***************************************************************************)
EXTENDS Integers, Sequences, FiniteSets, TLC

VARIABLES
    db,         \* committed tables: companies, events, signals, scores
    tx,         \* the open connection's view (uncommitted writes included)
    pc,         \* "idle" | "borme" | "regional" | "recompute" | "commit"
    mode,       \* "none" | "borme" | "regional": the run in flight
    items,      \* etl_borme: pdf_items[:cap]
    pos,        \* loop position: items already iterated / sources already iterated
    processed,  \* etl_borme `processed` / etl_regional `inserted`
    req,        \* the run's inputs: candidate list and cap (etl_borme)
    trace,      \* history: per record of the run in flight, what happened to it
    runs,       \* history: how many runs have committed
    in1,        \* history: the records the first committed run iterated
    fails,      \* history: how many calls have raised inside a try block so far
    kq,         \* make_company_key on its own: two inputs and the keys they get
    st,         \* recompute_scores(version) on its own: a store and the last call
    cc          \* two connections at once: the runs in flight and their history

vars == <<db, tx, pc, mode, items, pos, processed, req, trace, runs, in1, fails,
          kq, st, cc>>

\* the state of the runs (left alone while a function is applied on its own)
runvars == <<db, tx, pc, mode, items, pos, processed, req, trace, runs, in1, fails>>

\* the state outside the runs (left alone by the steps of a run)
aux == <<kq, st, cc>>

-----------------------------------------------------------------------------
(* Bounds of the model *)

MaxItems == 2       \* longest candidate list / listing page drawn
MaxEvents == 4      \* most Event rows the store is let grow to
MaxRuns == 2        \* most runs that commit
MaxFails == 1       \* most calls that raise inside a try block, over all runs
MaxStarts == 4      \* two connections at once: most runs started

-----------------------------------------------------------------------------
(* Strings *)

WS == {" ", "\t", "\n"}

UpperChars ==
    <<"A","B","C","D","E","F","G","H","I","J","K","L","M","N","O","P",
      "Q","R","S","T","U","V","W","X","Y","Z","Á","É","Í","Ó","Ú","Ñ">>
LowerChars ==
    <<"a","b","c","d","e","f","g","h","i","j","k","l","m","n","o","p",
      "q","r","s","t","u","v","w","x","y","z","á","é","í","ó","ú","ñ">>

Digits == {"0","1","2","3","4","5","6","7","8","9"}

\* the characters \w matches, among those the model uses
WordChars ==
    {UpperChars[i] : i \in 1..Len(UpperChars)}
    \cup {LowerChars[i] : i \in 1..Len(LowerChars)} \cup Digits \cup {"_"}

LowerChar(c) ==
    IF \E i \in 1..Len(UpperChars) : UpperChars[i] = c
    THEN LowerChars[CHOOSE i \in 1..Len(UpperChars) : UpperChars[i] = c]
    ELSE c

Lower(s) == [i \in 1..Len(s) |-> LowerChar(s[i])]

\* s[:n] for n >= 0
Take(s, n) == IF n >= Len(s) THEN s ELSE SubSeq(s, 1, n)

\* Python's seq[:n] for any integer n
PySlice(s, n) ==
    IF n >= 0 THEN Take(s, n)
    ELSE IF Len(s) + n > 0 THEN SubSeq(s, 1, Len(s) + n) ELSE <<>>

RECURSIVE LStrip(_)
LStrip(s) == IF s # <<>> /\ Head(s) \in WS THEN LStrip(Tail(s)) ELSE s

RECURSIVE RStrip(_)
RStrip(s) ==
    IF s # <<>> /\ s[Len(s)] \in WS THEN RStrip(SubSeq(s, 1, Len(s) - 1)) ELSE s

Strip(s) == RStrip(LStrip(s))

\* re.sub(r"\s+", " ", s)
RECURSIVE CollapseWs(_)
CollapseWs(s) ==
    IF s = <<>> THEN <<>>
    ELSE IF Head(s) \in WS
         THEN <<" ">> \o CollapseWs(LStrip(Tail(s)))
         ELSE <<Head(s)>> \o CollapseWs(Tail(s))

norm_text(s) == CollapseWs(Lower(Strip(s)))

\* md5 is taken as injective on the composite string: the key is the string
make_company_key(name, province, ccaa) ==
    norm_text(name) \o <<"|">> \o norm_text(province) \o <<"|">> \o norm_text(ccaa)

-----------------------------------------------------------------------------
(* Regular expressions of the keyword lists: \b? (set of chars)+ \b? *)

Lit(s) == [i \in 1..Len(s) |-> {s[i]}]
Oo == <<{"o", "ó"}>>
Pat(lb, body, rb) == [lb |-> lb, body |-> body, rb |-> rb]

Cesion == Lit(<<"c","e","s","i">>) \o Oo \o Lit(<<"n">>)

KEYWORDS_POS == {
    Pat(TRUE, Cesion, TRUE),
    Pat(TRUE, Cesion \o Lit(<<" ","d","e"," ","e","m","p","r","e","s","a">>), TRUE),
    Pat(TRUE, Lit(<<"t","r","a","s","p","a","s","o">>), TRUE),
    Pat(TRUE, Lit(<<"t","r","a","n","s","m","i","s","i">>) \o Oo \o Lit(<<"n">>), TRUE),
    Pat(TRUE, Lit(<<"j","u","b","i","l","a","c","i">>) \o Oo \o Lit(<<"n">>), TRUE),
    Pat(TRUE, Lit(<<"r","e","l","e","v","o"," ","g","e","n","e","r","a","c","i","o","n","a","l">>), TRUE),
    Pat(TRUE, Lit(<<"u","n","i","d","a","d"," ","p","r","o","d","u","c","t","i","v","a">>), TRUE) }

KEYWORDS_GOV == {
    Pat(TRUE, Lit(<<"c","o","n","v","o","c","a","t","o","r","i","a"," ","d","e"," ","j","u","n","t","a">>), TRUE),
    Pat(TRUE, Lit(<<"j","u","n","t","a"," ","g","e","n","e","r","a","l">>), TRUE),
    Pat(TRUE, Lit(<<"c","a","m","b","i","o"," ","a","c","c","i","o","n","a","r","i","o">>), TRUE) }

KEYWORDS_NEG == {
    Pat(TRUE, Lit(<<"d","i","s","o","l","u","c","i">>) \o Oo \o Lit(<<"n">>), TRUE),
    Pat(TRUE, Lit(<<"l","i","q","u","i","d","a","c","i">>) \o Oo \o Lit(<<"n">>), TRUE),
    Pat(TRUE, Lit(<<"c","o","n","c","u","r","s","o">>), TRUE),
    Pat(TRUE, Lit(<<"i","n","s","o","l","v","e","n","c">>), FALSE) }

\* \b at the gap before position i of t (i in 1..Len(t)+1)
Boundary(t, i) ==
    LET before == i > 1 /\ t[i - 1] \in WordChars
        after  == i <= Len(t) /\ t[i] \in WordChars
    IN  before # after

MatchAt(p, t, i) ==
    /\ i + Len(p.body) - 1 <= Len(t)
    /\ \A j \in 1..Len(p.body) : t[i + j - 1] \in p.body[j]
    /\ p.lb => Boundary(t, i)
    /\ p.rb => Boundary(t, i + Len(p.body))

\* re.search(p, t)
Search(p, t) == \E i \in 1..Len(t) : MatchAt(p, t, i)

detect_signals(text) ==
    LET t == norm_text(text)
    IN  [pos |-> \E p \in KEYWORDS_POS : Search(p, t),
         gov |-> \E p \in KEYWORDS_GOV : Search(p, t),
         neg |-> \E p \in KEYWORDS_NEG : Search(p, t)]

-----------------------------------------------------------------------------
(* The store: four tables, each a set of rows *)

NoTables == [companies |-> {}, events |-> {}, signals |-> {}, scores |-> {}]

W_POS == 40
W_GOV == 15
W_NEG == -50
W_LISTING == 40
TITLE_MAX == 220
EV_TITLE_MAX == 500
SCORE_MIN == 0
SCORE_MAX == 100
HOT_MIN == 75
WARM_MIN == 60
WATCH_MIN == 45

DEFAULT_VERSION == "v0_rules_2026_02"

\* variant: the MERGE has no WHEN MATCHED clause, the first observation stays
upsert_company_KeepFirst(t, ckey, name, province, ccaa) ==
    LET row == [company_key |-> ckey, name |-> name,
                province |-> province, ccaa |-> ccaa]
    IN  [t EXCEPT !.companies =
            IF \E r \in @ : r.company_key = ckey THEN @ ELSE @ \cup {row}]

\* MERGE ... WHEN MATCHED THEN UPDATE ... WHEN NOT MATCHED THEN INSERT
upsert_company(t, ckey, name, province, ccaa) ==
    LET row == [company_key |-> ckey, name |-> name,
                province |-> province, ccaa |-> ccaa]
    IN  [t EXCEPT !.companies =
            IF \E r \in @ : r.company_key = ckey
            THEN {IF r.company_key = ckey THEN row ELSE r : r \in @}
            ELSE @ \cup {row}]

\* IDENTITY(1,1): a value no row of the table holds.  Rows are never deleted
\* and a rolled-back insert leaves no row, so the row count plus one is fresh.
NextEventId(t) == Cardinality(t.events) + 1
NextSignalId(t) == Cardinality(t.signals) + 1

\* variant: the company_key of the event is read under a wrong name and is
\* stored empty
insert_event_NoKey(t, ev) ==
    [t EXCEPT !.events = @ \cup {[event_id |-> NextEventId(t),
                                  source |-> ev.source,
                                  source_ref |-> ev.source_ref,
                                  event_type |-> ev.event_type,
                                  title |-> ev.title,
                                  url |-> ev.url,
                                  company_key |-> <<>>]}]

\* INSERT INTO events ... OUTPUT INSERTED.event_id (the id is NextEventId(t))
insert_event(t, ev) ==
    [t EXCEPT !.events = @ \cup {[event_id |-> NextEventId(t),
                                  source |-> ev.source,
                                  source_ref |-> ev.source_ref,
                                  event_type |-> ev.event_type,
                                  title |-> ev.title,
                                  url |-> ev.url,
                                  company_key |-> ev.company_key]}]

\* variant: the insert is a MERGE on (company_key, signal_kind): a signal of
\* the same kind for the same company replaces the one stored
insert_signal_Dedup(t, sig) ==
    [t EXCEPT !.signals =
        {g \in @ : ~(g.company_key = sig.company_key /\ g.signal_kind = sig.signal_kind)}
        \cup {[signal_id |-> NextSignalId(t),
                company_key |-> sig.company_key,
                signal_kind |-> sig.signal_kind,
                weight |-> sig.weight,
                source |-> sig.source,
                event_id |-> sig.event_id]}]

\* INSERT INTO signals
insert_signal(t, sig) ==
    [t EXCEPT !.signals = @ \cup {[signal_id |-> NextSignalId(t),
                                   company_key |-> sig.company_key,
                                   signal_kind |-> sig.signal_kind,
                                   weight |-> sig.weight,
                                   source |-> sig.source,
                                   event_id |-> sig.event_id]}]

RECURSIVE SumWeight(_)
SumWeight(S) ==
    IF S = {} THEN 0
    ELSE LET s == CHOOSE x \in S : TRUE IN s.weight + SumWeight(S \ {s})

\* CTE agg: SUM(weight) ... GROUP BY company_key
RawScore(t, k) == SumWeight({s \in t.signals : s.company_key = k})

\* variant: the upper bound of the clamp is lost
Clamp_NoCeiling(raw) == IF raw < SCORE_MIN THEN SCORE_MIN ELSE raw

\* CTE norm
Clamp(raw) ==
    IF raw < SCORE_MIN THEN SCORE_MIN
    ELSE IF raw > SCORE_MAX THEN SCORE_MAX
    ELSE raw

\* variant: the thresholds are evaluated lowest first
Band_LowestFirst(score) ==
    IF score >= WATCH_MIN THEN "Watchlist"
    ELSE IF score >= WARM_MIN THEN "Warm"
    ELSE IF score >= HOT_MIN THEN "Hot"
    ELSE "Cold"

\* CTE banded
Band(score) ==
    IF score >= HOT_MIN THEN "Hot"
    ELSE IF score >= WARM_MIN THEN "Warm"
    ELSE IF score >= WATCH_MIN THEN "Watchlist"
    ELSE "Cold"

\* the MERGE source: one row per company_key of the signals table
Banded(t) ==
    {[company_key |-> k, score |-> Clamp(RawScore(t, k)),
      band |-> Band(Clamp(RawScore(t, k)))] : k \in {s.company_key : s \in t.signals}}

ScoreRow(b, version) ==
    [company_key |-> b.company_key, score |-> b.score, band |-> b.band,
     score_version |-> version]

\* variant: the MERGE source is every company, with 0 for one without signals
recompute_scores_AllCompanies(t, version) ==
    [t EXCEPT !.scores =
        {ScoreRow([company_key |-> c.company_key,
                   score |-> Clamp(RawScore(t, c.company_key)),
                   band |-> Band(Clamp(RawScore(t, c.company_key)))], version) :
            c \in t.companies}]

\* variant: the MERGE has no WHEN MATCHED clause, an existing row is kept
recompute_scores_InsertOnly(t, version) ==
    [t EXCEPT !.scores =
        @ \cup {ScoreRow(b, version) :
                  b \in {x \in Banded(t) : \A r \in @ : r.company_key # x.company_key}}]

\* variant: the UPDATE sets score and band and leaves score_version as it was
recompute_scores_KeepTag(t, version) ==
    LET src == Banded(t)
        matched(r) == \E b \in src : b.company_key = r.company_key
        srcOf(r) == CHOOSE b \in src : b.company_key = r.company_key
    IN  [t EXCEPT !.scores =
            {IF matched(r) THEN ScoreRow(srcOf(r), r.score_version) ELSE r : r \in @}
            \cup {ScoreRow(b, version) :
                    b \in {x \in src : \A r \in @ : r.company_key # x.company_key}}]

\* MERGE scores: matched rows are overwritten, unmatched source rows inserted,
\* target rows without a source row are left as they are
recompute_scores(t, version) ==
    LET src == Banded(t)
        matched(r) == \E b \in src : b.company_key = r.company_key
        srcOf(r) == CHOOSE b \in src : b.company_key = r.company_key
    IN  [t EXCEPT !.scores =
            {IF matched(r) THEN ScoreRow(srcOf(r), version) ELSE r : r \in @}
            \cup {ScoreRow(b, version) :
                    b \in {x \in src : \A r \in @ : r.company_key # x.company_key}}]

-----------------------------------------------------------------------------
(* Inputs: what the BORME summary and the listing pages can hold *)

T_POSGOV == <<"C","E","S","I","Ó","N","\n","j","u","n","t","a"," "," ","G","e","n","e","r","a","l">>
T_ALL == <<"J","u","n","t","a"," ","g","e","n","e","r","a","l",":"," ","c","e","s","i","o","n","\t","y"," ","C","o","n","c","u","r","s","o",".">>
T_NEG == <<"i","n","s","o","l","v","e","n","c","i","a">>
T_NOISE == <<"c","o","n","c","e","s","i","o","n","e","s">>

N_ACME == <<"A","c","m","e"," ","S","L">>
N_ACME2 == <<" ","A","C","M","E"," "," ","s","l">>
N_TRASPASO == <<"T","r","a","s","p","a","s","o">>
N_RELEVO == <<"R","e","l","e","v","o">>

\* the summary of the day, in source order
Summary ==
    << [identificador |-> "B1", titulo |-> N_ACME, url_pdf |-> "u1"],
       [identificador |-> "B2", titulo |-> N_ACME2, url_pdf |-> "u2"],
       [identificador |-> "B3", titulo |-> <<>>, url_pdf |-> "u3"],
       [identificador |-> "B4", titulo |-> N_ACME, url_pdf |-> "u4"],
       [identificador |-> "B5", titulo |-> N_ACME, url_pdf |-> ""] >>

\* the text pdf_text_from_url(url) extracts, when it does not raise
pdf_text_from_url(url) ==
    CASE url = "u1" -> T_POSGOV
      [] url = "u2" -> T_ALL
      [] url = "u3" -> T_NEG
      [] url = "u4" -> T_NOISE
      [] OTHER -> <<>>

Docs == {Summary[i] : i \in 1..Len(Summary)}

\* the entries of a listing page, in page order, as scrape_listings_basic
\* returns them (it drops repeated urls)
Page ==
    << [title |-> N_TRASPASO, url |-> "w1"],
       [title |-> N_RELEVO, url |-> "w2"] >>

RECURSIVE Pick(_, _)
Pick(s, I) ==
    IF s = <<>> THEN <<>>
    ELSE (IF Len(s) \in I THEN Pick(SubSeq(s, 1, Len(s) - 1), I) \o <<s[Len(s)]>>
          ELSE Pick(SubSeq(s, 1, Len(s) - 1), I))

\* the candidate lists drawn: up to MaxItems items of the summary, in order
CandidateLists ==
    {Pick(Summary, I) : I \in {J \in SUBSET (1..Len(Summary)) : Cardinality(J) <= MaxItems}}

\* the listing pages drawn: the first entries of the page, up to MaxItems
ListingLists == {Take(Page, n) : n \in 0..MaxItems}

Caps == -1..MaxItems

CCAA_ARAGON == <<"A","r","a","g","ó","n">>
CCAA_CYL == <<"C","a","s","t","i","l","l","a"," ","y"," ","L","e","ó","n">>
CCAA_CANTABRIA == <<"C","a","n","t","a","b","r","i","a">>

REGIONAL_SOURCES == <<
    [source |-> "RelevoAragon", ccaa |-> CCAA_ARAGON],
    [source |-> "RELEVACyL", ccaa |-> CCAA_CYL],
    [source |-> "RelevoCantabria", ccaa |-> CCAA_CANTABRIA] >>

EMPRESA_BORME == <<"E","m","p","r","e","s","a"," ","(","B","O","R","M","E",")">>
NEGOCIO_EN_TRASPASO == <<"N","e","g","o","c","i","o"," ","e","n"," ","t","r","a","s","p","a","s","o">>

\* x or y, on strings
OrElse(x, y) == IF x # <<>> THEN x ELSE y

-----------------------------------------------------------------------------
(* etl_borme: the body of the try block for one item *)

\* where the body raises: nowhere, in pdf_text_from_url, or in a store call
BormeFails == {"none", "fetch", "upsert", "event", "sig_pos", "sig_gov", "sig_neg"}

\* history entry of one record: the source it came from, the record, how
\* its processing ended ("ok", "failed", "noise", "skipped": never reached) and
\* the company keys, event ids and signal ids written for it
Entry(src, rec, out, co, ev, sg) ==
    [src |-> src, rec |-> rec, out |-> out, co |-> co, ev |-> ev, sg |-> sg]

\* variant: the sign of the weight is lost
BormeSignal_AbsWeight(ckey, kind, weight, event_id) ==
    [company_key |-> ckey, signal_kind |-> kind,
     weight |-> IF weight < 0 THEN 0 - weight ELSE weight,
     source |-> "BORME", event_id |-> event_id]

\* the dict a document run passes to insert_signal
BormeSignal(ckey, kind, weight, event_id) ==
    [company_key |-> ckey, signal_kind |-> kind, weight |-> weight,
     source |-> "BORME", event_id |-> event_id]

\* variant: the noise filter is gone
IsNoise_Never(sigs) == FALSE

\* Control de ruido: not (sigs["pos"] or sigs["gov"] or sigs["neg"])
IsNoise(sigs) == ~(sigs.pos \/ sigs.gov \/ sigs.neg)

\* variant: the filter is applied after the event insert, the Event row stays
OnNoise_KeepsEvent(t, t2, it) ==
    [t |-> t2, e |-> Entry("BORME", it, "noise", {}, {NextEventId(t2) - 1}, {})]

\* `continue`: the item is left before anything is written (t: the tables
\* before the body, t2: the tables the upsert and the event insert would leave)
OnNoise(t, t2, it) == [t |-> t, e |-> Entry("BORME", it, "noise", {}, {}, {})]

\* detect_signals(pdf_text_from_url(url_pdf)) of each item of the summary
Detected == [d \in Docs |-> detect_signals(pdf_text_from_url(d.url_pdf))]

\* company_name = (title[:220] or "Empresa (BORME)").strip()
company_name(title) == Strip(OrElse(Take(title, TITLE_MAX), EMPRESA_BORME))

\* the tables after the body ran on `it` and raised at `f`, and what it wrote
BormeBody(t, it, f) ==
    LET sigs == Detected[it]
        name == company_name(it.titulo)
        ckey == make_company_key(name, <<>>, <<>>)
        t1 == upsert_company(t, ckey, name, <<>>, <<>>)
        ev == [source |-> "BORME", source_ref |-> it.identificador,
               event_type |-> "borme_pdf", title |-> Take(it.titulo, EV_TITLE_MAX),
               url |-> it.url_pdf, company_key |-> ckey]
        event_id == NextEventId(t1)
        t2 == insert_event(t1, ev)
        t3 == IF sigs.pos
              THEN insert_signal(t2, BormeSignal(ckey, "explicit_or_text_relevo", W_POS, event_id))
              ELSE t2
        t4 == IF sigs.gov
              THEN insert_signal(t3, BormeSignal(ckey, "junta_o_cambio", W_GOV, event_id))
              ELSE t3
        t5 == IF sigs.neg
              THEN insert_signal(t4, BormeSignal(ckey, "negativa_distressed", W_NEG, event_id))
              ELSE t4
        ids(a, b) == {s.signal_id : s \in b.signals \ a.signals}
    IN  IF f = "fetch" THEN [t |-> t, e |-> Entry("BORME", it, "failed", {}, {}, {})]
        ELSE IF IsNoise(sigs)
        THEN OnNoise(t, t2, it)
        ELSE IF f = "upsert" THEN [t |-> t, e |-> Entry("BORME", it, "failed", {}, {}, {})]
        ELSE IF f = "event" THEN [t |-> t1, e |-> Entry("BORME", it, "failed", {ckey}, {}, {})]
        ELSE IF f = "sig_pos" /\ sigs.pos
        THEN [t |-> t2, e |-> Entry("BORME", it, "failed", {ckey}, {event_id}, {})]
        ELSE IF f = "sig_gov" /\ sigs.gov
        THEN [t |-> t3, e |-> Entry("BORME", it, "failed", {ckey}, {event_id}, ids(t2, t3))]
        ELSE IF f = "sig_neg" /\ sigs.neg
        THEN [t |-> t4, e |-> Entry("BORME", it, "failed", {ckey}, {event_id}, ids(t2, t4))]
        ELSE [t |-> t5, e |-> Entry("BORME", it, "ok", {ckey}, {event_id}, ids(t2, t5))]

-----------------------------------------------------------------------------
(* etl_regional: the body of the try block for one source *)

\* where the listing loop raises: in no store call, or in one of the three
ListingFails == {"none", "upsert", "event", "signal"}

\* variant: the listing signal is gated by the positive keywords of the title
ListingSignal_Gated(t, src, name, ckey, event_id) ==
    IF detect_signals(name).pos
    THEN insert_signal(t, [company_key |-> ckey, signal_kind |-> "explicit_listing",
                           weight |-> W_LISTING, source |-> src.source,
                           event_id |-> event_id])
    ELSE t

\* the signal of a listing: inserted for every listing, whatever its title
ListingSignal(t, src, name, ckey, event_id) ==
    insert_signal(t, [company_key |-> ckey, signal_kind |-> "explicit_listing",
                      weight |-> W_LISTING, source |-> src.source,
                      event_id |-> event_id])

\* name = li["title"] or "Negocio en traspaso"
listing_name(title) == OrElse(title, NEGOCIO_EN_TRASPASO)

\* the body of the inner loop on listing `li`, raising at `f`
ListingBody(t, src, li, f) ==
    LET name == listing_name(li.title)
        ckey == make_company_key(name, <<>>, src.ccaa)
        t1 == upsert_company(t, ckey, name, <<>>, src.ccaa)
        ev == [source |-> src.source, source_ref |-> "",
               event_type |-> "listing", title |-> Take(name, EV_TITLE_MAX),
               url |-> li.url, company_key |-> ckey]
        event_id == NextEventId(t1)
        t2 == insert_event(t1, ev)
        t3 == ListingSignal(t2, src, name, ckey, event_id)
    IN  IF f = "upsert" THEN [t |-> t, e |-> Entry(src.source, li, "failed", {}, {}, {})]
        ELSE IF f = "event"
        THEN [t |-> t1, e |-> Entry(src.source, li, "failed", {ckey}, {}, {})]
        ELSE IF f = "signal"
        THEN [t |-> t2, e |-> Entry(src.source, li, "failed", {ckey}, {event_id}, {})]
        ELSE [t |-> t3, e |-> Entry(src.source, li, "ok", {ckey}, {event_id},
                                    {s.signal_id : s \in t3.signals \ t2.signals})]

\* the inner loop from listing i on; listing k raises at f (k = 0: none does),
\* which leaves the loop: the except clause encloses the loop, not its body
RECURSIVE ListingLoop(_, _, _, _, _, _)
ListingLoop(t, src, listings, i, k, f) ==
    IF i > Len(listings) THEN [t |-> t, es |-> <<>>, n |-> 0]
    ELSE IF i = k
    THEN LET r == ListingBody(t, src, listings[i], f)
         IN  [t |-> r.t,
              es |-> <<r.e>> \o [j \in 1..(Len(listings) - i) |->
                        Entry(src.source, listings[i + j], "skipped", {}, {}, {})],
              n |-> 0]
    ELSE LET r == ListingBody(t, src, listings[i], "none")
             rest == ListingLoop(r.t, src, listings, i + 1, k, f)
         IN  [t |-> rest.t, es |-> <<r.e>> \o rest.es, n |-> 1 + rest.n]

-----------------------------------------------------------------------------
(* The state machine *)

Idle == [cand |-> <<>>, cap |-> 0]

\* a connection that is not open
IdleRun ==
    [pc |-> "idle", recs |-> <<>>, pos |-> 0, w |-> NoTables,
     snap |-> [signals |-> {}, scored |-> {}], waiting |-> FALSE,
     solo |-> FALSE, peer |-> NoTables]

\* no run in flight on either connection, no row ever inserted, no run committed
\* (last: the run that committed last, with what it wrote, whether no other run
\* was in flight while it was, what the last run that committed while it was in
\* flight wrote, and whether a committed Score row was not the clamped sum of
\* the committed signals when it committed)
NoConc ==
    [run |-> [r \in {1, 2} |-> IdleRun],
     ever |-> [events |-> {}, signals |-> {}],
     last |-> [n |-> 0, w |-> NoTables, solo |-> FALSE, peer |-> NoTables,
               stale |-> FALSE],
     starts |-> 0, reserved |-> 0]

\* an empty store on which recompute_scores has not been called
NoStore == [t |-> NoTables, ver |-> "none", fresh |-> FALSE, prev |-> {}]

\* no key computed yet
NoKeys == [op |-> "none", a |-> <<>>, b |-> <<>>, ka |-> <<>>, kb |-> <<>>]

Init ==
    /\ db = NoTables
    /\ tx = NoTables
    /\ pc = "idle"
    /\ mode = "none"
    /\ items = <<>>
    /\ pos = 0
    /\ processed = 0
    /\ req = Idle
    /\ trace = <<>>
    /\ runs = 0
    /\ in1 = <<>>
    /\ fails = 0
    /\ kq = NoKeys
    /\ st = NoStore
    /\ cc = NoConc

HasPdf(it) == it.url_pdf # ""

\* etl_borme up to the loop: the summary is fetched, the items with a pdf are
\* kept, the connection is opened and the cap is applied
StartBorme ==
    /\ pc = "idle"
    /\ runs < MaxRuns
    /\ \E cand \in CandidateLists, cap \in Caps :
        LET pdf_items == SelectSeq(cand, HasPdf)
        IN  /\ Cardinality(db.events) + Len(PySlice(pdf_items, cap)) <= MaxEvents
            /\ items' = PySlice(pdf_items, cap)
            /\ req' = [cand |-> cand, cap |-> cap]
    /\ tx' = db
    /\ pc' = "borme"
    /\ mode' = "borme"
    /\ pos' = 0
    /\ processed' = 0
    /\ trace' = <<>>
    /\ UNCHANGED <<db, runs, in1, fails>>
    /\ UNCHANGED aux

\* variant: the loop commits after each item
BormeRecord_Autocommit ==
    /\ pc = "borme"
    /\ pos < Len(items)
    /\ \E f \in BormeFails :
        LET r == BormeBody(tx, items[pos + 1], f)
        IN  /\ tx' = r.t
            /\ db' = r.t
            /\ trace' = Append(trace, r.e)
            /\ processed' = IF r.e.out = "ok" THEN processed + 1 ELSE processed
            /\ r.e.out = "failed" => fails < MaxFails
            /\ fails' = IF r.e.out = "failed" THEN fails + 1 ELSE fails
    /\ pos' = pos + 1
    /\ UNCHANGED <<pc, mode, items, req, runs, in1>>
    /\ UNCHANGED aux

\* one iteration of the loop of etl_borme
BormeRecord ==
    /\ pc = "borme"
    /\ pos < Len(items)
    /\ \E f \in BormeFails :
        LET r == BormeBody(tx, items[pos + 1], f)
        IN  /\ tx' = r.t
            /\ trace' = Append(trace, r.e)
            /\ processed' = IF r.e.out = "ok" THEN processed + 1 ELSE processed
            /\ r.e.out = "failed" => fails < MaxFails
            /\ fails' = IF r.e.out = "failed" THEN fails + 1 ELSE fails
    /\ pos' = pos + 1
    /\ UNCHANGED <<db, pc, mode, items, req, runs, in1>>
    /\ UNCHANGED aux

\* etl_regional up to the loop: the connection is opened
StartRegional ==
    /\ pc = "idle"
    /\ runs < MaxRuns
    /\ tx' = db
    /\ pc' = "regional"
    /\ mode' = "regional"
    /\ items' = <<>>
    /\ pos' = 0
    /\ processed' = 0
    /\ req' = Idle
    /\ trace' = <<>>
    /\ UNCHANGED <<db, runs, in1, fails>>
    /\ UNCHANGED aux

\* one iteration of the loop of etl_regional over REGIONAL_SOURCES: the page is
\* scraped and its listings are stored, until one of them raises
RegionalSource ==
    /\ pc = "regional"
    /\ pos < Len(REGIONAL_SOURCES)
    /\ LET src == REGIONAL_SOURCES[pos + 1]
       IN  \/ \* scrape_listings_basic raises
              /\ fails < MaxFails
              /\ fails' = fails + 1
              /\ trace' = Append(trace, Entry(src.source, <<>>, "noscrape", {}, {}, {}))
              /\ UNCHANGED <<tx, processed>>
           \/ \E listings \in ListingLists, k \in 0..MaxItems, f \in ListingFails :
                /\ Cardinality(tx.events) + Len(listings) <= MaxEvents
                /\ k <= Len(listings)
                /\ (k = 0) = (f = "none")
                /\ k > 0 => fails < MaxFails
                /\ fails' = IF k > 0 THEN fails + 1 ELSE fails
                /\ LET r == ListingLoop(tx, src, listings, 1, k, f)
                   IN  /\ tx' = r.t
                       /\ trace' = trace \o r.es
                       /\ processed' = processed + r.n
    /\ pos' = pos + 1
    /\ UNCHANGED <<db, pc, mode, items, req, runs, in1>>
    /\ UNCHANGED aux

\* after the loop: recompute_scores(cur, schema)
Recompute ==
    /\ \/ pc = "borme" /\ pos = Len(items)
       \/ pc = "regional" /\ pos = Len(REGIONAL_SOURCES)
    /\ tx' = recompute_scores(tx, DEFAULT_VERSION)
    /\ pc' = "commit"
    /\ UNCHANGED <<db, mode, items, pos, processed, req, trace, runs, in1, fails>>
    /\ UNCHANGED aux

RunInput(tr) == [i \in 1..Len(tr) |-> [src |-> tr[i].src, rec |-> tr[i].rec]]

\* conn.commit(); conn.close(): the run's writes become the committed state
\* and the process ends
Commit ==
    /\ pc = "commit"
    /\ db' = tx
    /\ pc' = "idle"
    /\ mode' = "none"
    /\ items' = <<>>
    /\ pos' = 0
    /\ processed' = 0
    /\ req' = Idle
    /\ trace' = <<>>
    /\ runs' = runs + 1
    /\ in1' = IF runs = 0 THEN RunInput(trace) ELSE in1
    /\ UNCHANGED <<tx, fails>>
    /\ UNCHANGED aux

\* the process dies, or a call outside the try blocks raises (ensure_schema,
\* recompute_scores, commit): the connection is dropped without a commit and
\* the store rolls the open transaction back
Abort ==
    /\ pc \in {"borme", "regional", "commit"}
    /\ tx' = db
    /\ pc' = "idle"
    /\ mode' = "none"
    /\ items' = <<>>
    /\ pos' = 0
    /\ processed' = 0
    /\ req' = Idle
    /\ trace' = <<>>
    /\ UNCHANGED <<db, runs, in1, fails>>
    /\ UNCHANGED aux

Next ==
    \/ StartBorme
    \/ BormeRecord
    \/ StartRegional
    \/ RegionalSource
    \/ Recompute
    \/ Commit
    \/ Abort

Spec == Init /\ [][Next]_vars

-----------------------------------------------------------------------------
(* Vocabulary of the properties *)

Recs == 1..Len(trace)
InRun == pc \in {"borme", "regional", "commit"}
AnyFlag(sigs) == sigs.pos \/ sigs.gov \/ sigs.neg
UrlFlags ==
    [u \in {Summary[i].url_pdf : i \in 1..Len(Summary)} |->
        detect_signals(pdf_text_from_url(u))]
FlagsOfUrl(url) == UrlFlags[url]
KeysOf(rows) == {r.company_key : r \in rows}
RowsOf(rows, k) == {r \in rows : r.company_key = k}

\* the sum of the weights of the signals of company k, clamped to [0, 100]
ClampedSum(t, k) ==
    LET sum == SumWeight(RowsOf(t.signals, k))
    IN  IF sum <= 0 THEN 0 ELSE IF sum >= 100 THEN 100 ELSE sum

-----------------------------------------------------------------------------
(* C1: per-record isolation.  When the loop of a run has ended, no record of
   the run was left unprocessed because an earlier record failed, and the
   processed count is the number of records processed without failure. *)
C1_Isolation ==
    pc = "commit" =>
        /\ \A i \in Recs : trace[i].out # "skipped"
        /\ mode = "borme" => Len(trace) = Len(items)
        /\ processed = Cardinality({i \in Recs : trace[i].out = "ok"})

(* C1, the part the document run keeps: every item of pdf_items[:cap] is
   iterated, whatever failed before it. *)
C1_BormeIsolation ==
    (pc = "commit" /\ mode = "borme") =>
        /\ Len(trace) = Len(items)
        /\ \A i \in Recs : trace[i].out # "skipped" /\ trace[i].rec = items[i]
        /\ processed = Cardinality({i \in Recs : trace[i].out = "ok"})

-----------------------------------------------------------------------------
(* C2: a failed record is absent from the run's output.  In the state the run
   commits, no Event or Signal row written for a failed record is left, and no
   Company row it upserted is left unless the row was committed before the run
   or a record of the run that did not fail upserted it too. *)
C2_FailedAbsent ==
    pc = "commit" =>
        \A i \in Recs : trace[i].out = "failed" =>
            /\ \A e \in tx.events : e.event_id \notin trace[i].ev
            /\ \A g \in tx.signals : g.signal_id \notin trace[i].sg
            /\ \A k \in trace[i].co :
                \/ k \notin KeysOf(tx.companies)
                \/ k \in KeysOf(db.companies)
                \/ \E j \in Recs : trace[j].out = "ok" /\ k \in trace[j].co

-----------------------------------------------------------------------------
(* C3: run atomicity.  The committed tables change only by the commit that
   ends a run, which makes them the run's tables; every other step of a run,
   and the end of a run without a commit, leaves them as they were. *)
C3_Atomic ==
    [][ /\ db' # db => (pc = "commit" /\ pc' = "idle" /\ db' = tx)
        /\ (InRun /\ pc' = "idle" /\ runs' = runs) => (db' = db /\ tx' = db)
      ]_vars

\* a run that follows a committed run holds uncommitted writes
C3_Witness ==
    /\ runs = 1
    /\ pc = "commit"
    /\ db.events # {}
    /\ tx.events # db.events
    /\ tx.scores # db.scores

-----------------------------------------------------------------------------
(* C4: the noise filter, as the testable properties state it.  A step of the
   document loop on an item whose text matches none of the three keyword
   classes writes nothing: no Company, Event, Signal (or Score) row. *)
C4_NoiseWritesNothing ==
    [][ (pc = "borme" /\ pos' = pos + 1
            /\ ~AnyFlag(FlagsOfUrl(items[pos + 1].url_pdf)))
        => (tx' = tx /\ db' = db /\ processed' = processed) ]_vars

\* a noise document was iterated by a run that had already written rows
C4_Witness ==
    /\ pc = "borme"
    /\ tx.events # {}
    /\ Len(trace) > 0
    /\ ~AnyFlag(FlagsOfUrl(trace[Len(trace)].rec.url_pdf))
    /\ trace[Len(trace)].out = "noise"

-----------------------------------------------------------------------------
(* C5 as stated: for every document whose three flags are false the run
   inserts no Signal row but keeps an Event row. *)
C5_NoiseKeepsEvent ==
    \A i \in Recs :
        (trace[i].src = "BORME" /\ trace[i].out = "noise") =>
            /\ \A g \in tx.signals :
                  \A e \in tx.events :
                      (e.source_ref = trace[i].rec.identificador) => g.event_id # e.event_id
            /\ \E e \in tx.events :
                  e.source = "BORME" /\ e.source_ref = trace[i].rec.identificador

(* C5 amended: for every document whose three flags are false the run
   inserts neither a Signal row nor an Event row: every Event row of the
   document source, and so every Signal row that refers to one, belongs to a
   document with at least one true flag. *)
C5_NoiseHasNoEvent ==
    \A t \in {tx, db} :
        /\ \A e \in t.events :
              e.source = "BORME" => AnyFlag(FlagsOfUrl(e.url))
        /\ \A g \in t.signals :
              g.source = "BORME" =>
                  \E e \in t.events :
                      e.event_id = g.event_id /\ AnyFlag(FlagsOfUrl(e.url))

\* a run that iterated a noise document and a document with signals is about
\* to commit
C5_Witness ==
    /\ pc = "commit"
    /\ \E i \in Recs : trace[i].out = "noise"
    /\ \E i \in Recs : trace[i].out = "ok"
    /\ tx.signals # {}

-----------------------------------------------------------------------------
(* C6: every listing.  A step of the listing loop leaves, for each listing
   of the page that it stored without a call raising, exactly one new Event
   row of type listing and exactly one new Signal row, of kind
   explicit_listing and weight 40, that refers to that Event and carries the
   key of the one Company row of the listing; the keywords of the title gate
   none of them, and when no call raised every listing of the page is stored. *)
NewEvents == tx'.events \ tx.events
NewSignals == tx'.signals \ tx.signals

C6_ListingAlways ==
    [][ (pc = "regional" /\ pos' = pos + 1)
        => LET new == (Len(trace) + 1)..Len(trace')
               ok == {i \in new : trace'[i].out = "ok"}
               src == REGIONAL_SOURCES[pos + 1]
           IN  /\ processed' = processed + Cardinality(ok)
               /\ fails' = fails =>
                    /\ \A i \in new : trace'[i].out \in {"ok", "noscrape"}
                    /\ Cardinality(NewEvents) = Cardinality(ok)
                    /\ Cardinality(NewSignals) = Cardinality(ok)
               /\ \A i \in ok :
                    LET li == trace'[i].rec
                        ckey == make_company_key(li.title, <<>>, src.ccaa)
                        evs == {e \in NewEvents : e.url = li.url}
                    IN  /\ Cardinality(evs) = 1
                        /\ \A e \in evs :
                            /\ e.event_type = "listing"
                            /\ e.source = src.source
                            /\ e.company_key = ckey
                            /\ Cardinality(RowsOf(tx'.companies, ckey)) = 1
                            /\ Cardinality({g \in NewSignals : g.event_id = e.event_id}) = 1
                            /\ \A g \in NewSignals : g.event_id = e.event_id =>
                                /\ g.signal_kind = "explicit_listing"
                                /\ g.weight = 40
                                /\ g.company_key = ckey
                                /\ g.source = src.source
      ]_vars

\* a page of two listings was stored; the title of the second holds no
\* keyword of the detector
C6_Witness ==
    /\ pc = "regional"
    /\ Len(trace) >= 2
    /\ trace[Len(trace)].out = "ok"
    /\ trace[Len(trace) - 1].out = "ok"
    /\ ~AnyFlag(detect_signals(trace[Len(trace)].rec.title))
    /\ Cardinality(tx.signals) >= 2

-----------------------------------------------------------------------------
(* C7: right after recompute_scores, every company with a signal has a Score
   row whose score is the sum of the weights of its signals clamped to
   [0, 100]; and every Score row, committed or not, is within [0, 100]. *)
C7_ClampedSum ==
    /\ pc = "commit" =>
          \A k \in KeysOf(tx.signals) :
              \E r \in tx.scores : r.company_key = k /\ r.score = ClampedSum(tx, k)
    /\ \A t \in {tx, db} : \A r \in t.scores : 0 <= r.score /\ r.score <= 100

\* right after a recompute, one company's weights sum above 100 and another's
\* below 0
C7_Witness ==
    /\ pc = "commit"
    /\ \E k \in KeysOf(tx.signals) : SumWeight(RowsOf(tx.signals, k)) > 100
    /\ \E k \in KeysOf(tx.signals) : SumWeight(RowsOf(tx.signals, k)) < 0

-----------------------------------------------------------------------------
(* C8: every Score row's band is the band of its own score: Hot from 75,
   Warm from 60 to 74, Watchlist from 45 to 59, Cold below 45. *)
C8_BandOfScore ==
    \A t \in {tx, db} : \A r \in t.scores :
        /\ r.band \in {"Hot", "Warm", "Watchlist", "Cold"}
        /\ r.band = "Hot" <=> r.score >= 75
        /\ r.band = "Warm" <=> (60 <= r.score /\ r.score < 75)
        /\ r.band = "Watchlist" <=> (45 <= r.score /\ r.score < 60)
        /\ r.band = "Cold" <=> r.score < 45

\* a committed score on a threshold (60) and, after the next recompute, scores
\* in the highest and in the lowest band
C8_Witness ==
    /\ \E r \in db.scores : r.score = 60 /\ r.band = "Warm"
    /\ \E r \in tx.scores : r.band = "Hot"
    /\ \E r \in tx.scores : r.band = "Cold"

-----------------------------------------------------------------------------
(* C9: a Score row exists only for a company_key that owns a Signal row, and
   right after recompute_scores every company_key that owns a Signal row has
   exactly one Score row. *)
C9_ScoresIffSignals ==
    /\ \A t \in {tx, db} : KeysOf(t.scores) \subseteq KeysOf(t.signals)
    /\ pc = "commit" =>
          \A k \in KeysOf(tx.signals) : Cardinality(RowsOf(tx.scores, k)) = 1

\* right after a recompute over a store that holds a company without signals
\* and a company whose score the recompute changed
C9_Witness ==
    /\ pc = "commit"
    /\ \E c \in tx.companies : c.company_key \notin KeysOf(tx.signals)
    /\ \E r \in tx.scores : \E q \in db.scores :
          r.company_key = q.company_key /\ r.score # q.score

-----------------------------------------------------------------------------
(* C10: re-running.  When a run that iterated the records of the first run,
   in a store the first run filled, is about to commit, and no call raised:
   one Company row per key of the records, two Event rows per record that
   passed (and twice its Signal rows), and for each key the score
   clamp(2 * the sum of the weights one run writes for it). *)

\* what one run writes for a record, from the record alone
RecFlags(e) ==
    IF e.src = "BORME" THEN FlagsOfUrl(e.rec.url_pdf)
    ELSE [pos |-> FALSE, gov |-> FALSE, neg |-> FALSE]
RecPasses(e) == e.src # "BORME" \/ AnyFlag(RecFlags(e))
RecWeight(e) ==
    IF e.src = "BORME"
    THEN (IF RecFlags(e).pos THEN 40 ELSE 0) + (IF RecFlags(e).gov THEN 15 ELSE 0)
         + (IF RecFlags(e).neg THEN 0 - 50 ELSE 0)
    ELSE 40
RecCount(e) ==
    IF e.src = "BORME"
    THEN Cardinality({f \in {"pos", "gov", "neg"} : RecFlags(e)[f]})
    ELSE 1
RecKey(e) ==
    IF e.src = "BORME"
    THEN make_company_key(IF e.rec.titulo = <<>> THEN EMPRESA_BORME ELSE e.rec.titulo,
                          <<>>, <<>>)
    ELSE make_company_key(e.rec.title, <<>>,
            REGIONAL_SOURCES[CHOOSE i \in 1..Len(REGIONAL_SOURCES) :
                                REGIONAL_SOURCES[i].source = e.src].ccaa)
RecRef(e) == IF e.src = "BORME" THEN e.rec.url_pdf ELSE e.rec.url

RECURSIVE SumSeq(_)
SumSeq(q) == IF q = <<>> THEN 0 ELSE Head(q) + SumSeq(Tail(q))

Rerun == pc = "commit" /\ runs = 1 /\ fails = 0 /\ RunInput(trace) = in1

C10_Rerun ==
    Rerun =>
        LET passed == {i \in 1..Len(in1) : RecPasses(in1[i])}
            keys == {RecKey(in1[i]) : i \in passed}
            W(k) == SumSeq([i \in 1..Len(in1) |->
                        IF i \in passed /\ RecKey(in1[i]) = k THEN RecWeight(in1[i]) ELSE 0])
            nsig == SumSeq([i \in 1..Len(in1) |->
                        IF i \in passed THEN RecCount(in1[i]) ELSE 0])
        IN  /\ KeysOf(tx.companies) = keys
            /\ Cardinality(tx.companies) = Cardinality(keys)
            /\ Cardinality(tx.events) = 2 * Cardinality(passed)
            /\ \A i \in passed :
                  Cardinality({e \in tx.events :
                      e.source = in1[i].src /\ e.url = RecRef(in1[i])
                      /\ e.company_key = RecKey(in1[i])}) = 2
            /\ Cardinality(tx.signals) = 2 * nsig
            /\ Cardinality(tx.scores) = Cardinality(keys)
            /\ \A k \in keys : \A r \in RowsOf(tx.scores, k) :
                  r.score = (IF 2 * W(k) < 0 THEN 0
                             ELSE IF 2 * W(k) > 100 THEN 100 ELSE 2 * W(k))

\* the re-run of a document run of two items, one of them above 50 on its own
C10_Witness ==
    /\ Rerun
    /\ mode = "borme"
    /\ Cardinality(tx.events) = 4
    /\ \E r \in tx.scores : r.score = 100
    /\ \E r \in db.scores : r.score = 55

-----------------------------------------------------------------------------
(* C11: company uniqueness and permanence, over the runs one after another.
   After every step each company_key has one Company row; a committed Company
   row is never deleted, and neither is a row of the open transaction by a
   step of the run; a Company row no record of the step upserted is left as it
   was, and the row of an upserted key holds the name, province and region of
   the last record of the step that upserted it (last write wins). *)
ObservedName(e) ==
    IF e.src = "BORME" THEN Strip(OrElse(e.rec.titulo, EMPRESA_BORME))
    ELSE OrElse(e.rec.title, NEGOCIO_EN_TRASPASO)
ObservedCcaa(e) ==
    IF e.src = "BORME" THEN <<>>
    ELSE REGIONAL_SOURCES[CHOOSE i \in 1..Len(REGIONAL_SOURCES) :
                              REGIONAL_SOURCES[i].source = e.src].ccaa

-----------------------------------------------------------------------------
(* C16: the per-run cap.  For every candidate list and every integer cap, the
   records a document run iterates are the first cap candidates with a pdf, in
   source order, and none when cap <= 0; no other document is fetched. *)
C16_Cap ==
    (mode = "borme" /\ pc \in {"borme", "commit"}) =>
        LET pdf_items == SelectSeq(req.cand, HasPdf)
            n == IF req.cap <= 0 THEN 0
                 ELSE IF req.cap < Len(pdf_items) THEN req.cap ELSE Len(pdf_items)
        IN  /\ items = SubSeq(pdf_items, 1, n)
            /\ Len(trace) <= n
            /\ \A i \in Recs : trace[i].rec = pdf_items[i]

-----------------------------------------------------------------------------
(* C17: the signals of a document event.  For every document record that
   passed the noise filter and was processed without failure, the Signal rows
   that refer to its Event are one row per true flag and none for a false
   flag, of weight 40 (positive), 15 (governance) and -50 (negative): between
   one and three rows, whose weights sum to the weights of the true flags. *)
C17_SignalsPerFlag ==
    \A i \in Recs :
        (trace[i].src = "BORME" /\ trace[i].out = "ok") =>
            LET fl == FlagsOfUrl(trace[i].rec.url_pdf)
                sg == {g \in tx.signals : g.event_id \in trace[i].ev}
                of(kind) == {g \in sg : g.signal_kind = kind}
                n(b) == IF b THEN 1 ELSE 0
            IN  /\ Cardinality(trace[i].ev) = 1
                /\ Cardinality(of("explicit_or_text_relevo")) = n(fl.pos)
                /\ Cardinality(of("junta_o_cambio")) = n(fl.gov)
                /\ Cardinality(of("negativa_distressed")) = n(fl.neg)
                /\ \A g \in of("explicit_or_text_relevo") : g.weight = 40
                /\ \A g \in of("junta_o_cambio") : g.weight = 15
                /\ \A g \in of("negativa_distressed") : g.weight = 0 - 50
                /\ Cardinality(sg) = n(fl.pos) + n(fl.gov) + n(fl.neg)
                /\ Cardinality(sg) \in 1..3
                /\ SumWeight(sg) = 40 * n(fl.pos) + 15 * n(fl.gov) - 50 * n(fl.neg)

\* a run processed a document with the three flags true and a document with
\* one flag true
C17_Witness ==
    /\ mode = "borme"
    /\ \E i \in Recs :
          /\ trace[i].out = "ok"
          /\ Cardinality({g \in tx.signals : g.event_id \in trace[i].ev}) = 3
    /\ \E i \in Recs :
          /\ trace[i].out = "ok"
          /\ Cardinality({g \in tx.signals : g.event_id \in trace[i].ev}) = 1

-----------------------------------------------------------------------------
(* C18: the append-only frame.  No step removes or changes a committed Event
   or Signal row; no step of a run (a loop iteration, the recompute) removes or
   changes an Event or Signal row of its transaction; the recompute leaves
   companies, events and signals as they were; a loop iteration writes no
   Score row. *)
C18_AppendOnly ==
    [][ /\ db.events \subseteq db'.events
        /\ db.signals \subseteq db'.signals
        /\ (InRun /\ pc' # "idle") =>
              /\ tx.events \subseteq tx'.events
              /\ tx.signals \subseteq tx'.signals
        /\ (pc \in {"borme", "regional"} /\ pc' = "commit") =>
              /\ tx'.companies = tx.companies
              /\ tx'.events = tx.events
              /\ tx'.signals = tx.signals
        /\ (pc \in {"borme", "regional"} /\ pc' = pc) => tx'.scores = tx.scores
      ]_vars

\* a second run has added a signal for a company the first run scored, and its
\* recompute has changed that company's Score row
C18_Witness ==
    /\ runs = 1
    /\ pc = "commit"
    /\ db.signals # {}
    /\ \E g \in tx.signals \ db.signals : \E h \in db.signals :
          g.company_key = h.company_key /\ g.signal_kind = h.signal_kind
    /\ \E r \in tx.scores : r \notin db.scores

-----------------------------------------------------------------------------
(* C19: referential integrity.  In every state, committed or in flight, and
   whatever call has raised: every Signal row's event_id is the id of an Event
   row with the same company_key and the same source, and every Event row's
   company_key is the key of a Company row. *)
C19_References ==
    \A t \in {tx, db} :
        /\ \A g \in t.signals :
              \E e \in t.events :
                  /\ e.event_id = g.event_id
                  /\ e.company_key = g.company_key
                  /\ e.source = g.source
        /\ \A e \in t.events : e.company_key \in KeysOf(t.companies)
        /\ \A e, d \in t.events : e.event_id = d.event_id => e = d

\* a run in which a signal insert raised after the event insert, next to a
\* record that was stored whole, is about to commit
C19_Witness ==
    /\ pc = "commit"
    /\ \E i \in Recs : trace[i].out = "failed" /\ trace[i].ev # {} /\ trace[i].sg # {}
    /\ \E i \in Recs : trace[i].out = "ok"
    /\ tx.signals # {}

-----------------------------------------------------------------------------
(* make_company_key on its own: the function, and the key a record of either
   source kind gets, applied to two inputs drawn from small sets of strings *)

Spaces(n) == [i \in 1..n |-> " "]

\* province and region strings: empty, plain, with the separator, and with
\* case and whitespace variation
KeyStrings ==
    { <<>>, <<"b">>, <<" ","B"," ">>, <<"c">>, <<"b","|","c">>, <<"c","|">>,
      <<"|","c">> }
KeyNames == { <<"a">>, <<"A"," ">>, <<"a","|","b">> }
KeyTriples ==
    {[name |-> n, province |-> p, ccaa |-> c] :
        n \in KeyNames, p \in KeyStrings, c \in KeyStrings}

\* titles of records: variants of one title in case and whitespace, one of them
\* longer than the 220 characters the document run keeps, and blank titles
T_LONG == <<"A","c","m","e">> \o Spaces(TITLE_MAX) \o <<"S","L">>
Titles ==
    { N_ACME, N_ACME2, T_LONG, <<"a","c","m","e","\t","s","l","\n">>,
      N_TRASPASO, <<"t","r","a","s","p","a","s","o">>, <<>>, <<" ">>,
      EMPRESA_BORME, NEGOCIO_EN_TRASPASO }

KeyOfTriples ==
    /\ kq = NoKeys
    /\ \E a, b \in KeyTriples :
        kq' = [op |-> "key", a |-> a, b |-> b,
               ka |-> make_company_key(a.name, a.province, a.ccaa),
               kb |-> make_company_key(b.name, b.province, b.ccaa)]
    /\ UNCHANGED runvars
    /\ UNCHANGED <<st, cc>>

\* the key of two items of a summary, as etl_borme derives it
KeyOfItems ==
    /\ kq = NoKeys
    /\ \E a, b \in Titles :
        kq' = [op |-> "borme", a |-> a, b |-> b,
               ka |-> make_company_key(company_name(a), <<>>, <<>>),
               kb |-> make_company_key(company_name(b), <<>>, <<>>)]
    /\ UNCHANGED runvars
    /\ UNCHANGED <<st, cc>>

\* the key of two listings of one source, as etl_regional derives it
KeyOfListings ==
    /\ kq = NoKeys
    /\ \E a, b \in Titles, i \in 1..Len(REGIONAL_SOURCES) :
        kq' = [op |-> "listing", a |-> a, b |-> b,
               ka |-> make_company_key(listing_name(a), <<>>, REGIONAL_SOURCES[i].ccaa),
               kb |-> make_company_key(listing_name(b), <<>>, REGIONAL_SOURCES[i].ccaa)]
    /\ UNCHANGED runvars
    /\ UNCHANGED <<st, cc>>

KeyNext ==
    \/ KeyOfTriples
    \/ KeyOfItems
    \/ KeyOfListings

KeySpec == Init /\ [][KeyNext]_vars

-----------------------------------------------------------------------------
(* C14: key separation.  Two triples whose normalized provinces differ, or
   whose normalized regions differ, get different keys, whatever the strings
   hold, the separator included. *)
C14_KeySeparation ==
    kq.op = "key" =>
        ((norm_text(kq.a.province) # norm_text(kq.b.province)
          \/ norm_text(kq.a.ccaa) # norm_text(kq.b.ccaa))
         => kq.ka # kq.kb)

-----------------------------------------------------------------------------
(* C15: key stability under surface variation.  Two records of the same
   source kind whose names differ only in letter case, in leading or trailing
   whitespace or in the length of whitespace runs (their province and region
   being the same) get the same company_key. *)
C15_KeyStable ==
    kq.op \in {"borme", "listing"} =>
        (norm_text(kq.a) = norm_text(kq.b) => kq.ka = kq.kb)

(* C15, the part the function keeps: make_company_key gives one key to two
   triples that are equal field by field once normalized. *)
C15_FunctionStable ==
    kq.op = "key" =>
        ((/\ norm_text(kq.a.name) = norm_text(kq.b.name)
          /\ norm_text(kq.a.province) = norm_text(kq.b.province)
          /\ norm_text(kq.a.ccaa) = norm_text(kq.b.ccaa))
         => kq.ka = kq.kb)

-----------------------------------------------------------------------------
(* recompute_scores(version) on its own: records are stored one at a time, as
   the two loops store them, and the scores are recomputed at any point under
   a version tag the caller supplies *)

\* the default of the parameter, and a tag of a later rule set
Versions == {DEFAULT_VERSION, "v1_rules"}

StoreItem ==
    /\ Cardinality(st.t.events) < MaxEvents
    /\ \E it \in {d \in Docs : HasPdf(d)} :
        st' = [st EXCEPT !.t = BormeBody(st.t, it, "none").t, !.fresh = FALSE]
    /\ UNCHANGED <<runvars, kq, cc>>

StoreListing ==
    /\ Cardinality(st.t.events) < MaxEvents
    /\ \E i \in 1..Len(Page) :
        st' = [st EXCEPT !.t = ListingBody(st.t, REGIONAL_SOURCES[1], Page[i], "none").t,
                         !.fresh = FALSE]
    /\ UNCHANGED <<runvars, kq, cc>>

StoreRecompute ==
    /\ \E version \in Versions :
        st' = [t |-> recompute_scores(st.t, version), ver |-> version,
               fresh |-> TRUE, prev |-> st.t.scores]
    /\ UNCHANGED <<runvars, kq, cc>>

StoreNext ==
    \/ StoreItem
    \/ StoreListing
    \/ StoreRecompute

StoreSpec == Init /\ [][StoreNext]_vars

-----------------------------------------------------------------------------
(* C20: the version tag.  Right after a call recompute_scores(version), every
   Score row of the store carries the tag of that call, whether the call
   inserted the row or overwrote it. *)
C20_VersionTag ==
    st.fresh => \A r \in st.t.scores : r.score_version = st.ver

\* right after a recompute that inserted a Score row and overwrote a Score row
\* that carried the other tag
C20_Witness ==
    /\ st.fresh
    /\ \E r \in st.prev : r.score_version # st.ver
    /\ \E r \in st.t.scores : r.company_key \notin KeysOf(st.prev)

-----------------------------------------------------------------------------
(* Two connections at once.  Each run is one transaction on its own
   connection (sql_conn: autocommit off, one commit at the end) against a store
   in its default isolation, read committed with row versioning:
     - a statement reads the rows committed when it starts, and the rows its
       own transaction wrote; a read never waits;
     - a write locks the row (for an insert: the key value) until its
       transaction ends; a write to a row or key another transaction holds
       waits for that transaction to end (the Score rows a run writes are
       held from the MERGE of recompute_scores to the commit that follows it,
       with nothing in between: the two are one step);
     - an insert of a key value that another transaction committed after the
       statement started raises a duplicate-key error;
     - of two transactions that wait for each other, the store rolls one back
       and raises an error in it;
     - IDENTITY values are never handed out twice, whatever is rolled back.
   `db` is the committed store; cc.run[r].w holds the uncommitted writes of
   the run on connection r; the runs are document runs (etl_borme), and the
   steps are the statements that can wait: the
   company upsert of a loop iteration (the inserts that follow it in the body
   never wait and are taken with it) and the MERGE of recompute_scores (its
   read, and its write with the commit). *)

RunIds == {1, 2}
Other(r) == 3 - r
Run(r) == cc.run[r]
InFlight(r) == Run(r).pc # "idle"

\* rows, with the rows of `wrows` in place of those with the same key
Overlay(rows, wrows) ==
    {x \in rows : x.company_key \notin KeysOf(wrows)} \cup wrows

\* the tables as a statement of run r addresses them: the companies and scores
\* it reads, and for events and signals, where the bodies only insert, every
\* row ever inserted, which fixes the next IDENTITY value
View(r) ==
    [companies |-> Overlay(db.companies, Run(r).w.companies),
     events |-> cc.ever.events,
     signals |-> cc.ever.signals,
     scores |-> Overlay(db.scores, Run(r).w.scores)]

\* the uncommitted writes of run r after a loop step took View(r) to t and
\* upserted the keys `co`
Written(r, t, co) ==
    [companies |-> Overlay(Run(r).w.companies,
                           {c \in t.companies : c.company_key \in co}),
     events |-> Run(r).w.events \cup (t.events \ cc.ever.events),
     signals |-> Run(r).w.signals \cup (t.signals \ cc.ever.signals),
     scores |-> Run(r).w.scores]

\* the lists of items with a pdf the document runs work on, cap applied
ConcDocs == {Summary[1], Summary[2], Summary[3]}
ConcLists ==
    {<<>>} \cup {<<a>> : a \in ConcDocs}
    \cup ({<<a, b>> : a, b \in ConcDocs} \ {<<a, a>> : a \in ConcDocs})

AtLoop(r) == Run(r).pc = "loop" /\ Run(r).pos < Len(Run(r).recs)

\* the loop body of run r on its next item, raising at f
LoopStep(r, f) == BormeBody(View(r), Run(r).recs[Run(r).pos + 1], f)

\* the upsert of the next item waits: its key is held by the other run
Blocked(r) ==
    /\ AtLoop(r)
    /\ LoopStep(r, "none").e.co \cap KeysOf(Run(Other(r)).w.companies) # {}

\* the upsert of the next item finds no committed row for its key
Unseen(r) == LoopStep(r, "none").e.co \cap KeysOf(db.companies) = {}

\* sql_conn() of a document run on a list of items: slot 2 is used only while
\* slot 1 is open (which connection is which does not matter)
CStart(r) ==
    /\ ~InFlight(r)
    /\ r = 2 => InFlight(1)
    /\ cc.starts < MaxStarts
    /\ \E recs \in ConcLists :
        /\ cc.reserved + Len(recs) <= MaxEvents
        /\ cc' = [cc EXCEPT
                    !.run[r] = [IdleRun EXCEPT !.pc = "loop", !.recs = recs,
                                               !.solo = ~InFlight(Other(r))],
                    !.run[Other(r)].solo = FALSE,
                    !.starts = @ + 1,
                    !.reserved = @ + Len(recs)]
    /\ UNCHANGED <<db, tx, pc, mode, items, pos, processed, req, trace, runs, in1,
                   fails, kq, st>>

\* the MERGE of upsert_company has found no row for its key and waits for the
\* other run, which has inserted that key and not committed
CWait(r) ==
    /\ Blocked(r)
    /\ ~Run(r).waiting
    /\ Unseen(r)
    /\ cc' = [cc EXCEPT !.run[r].waiting = TRUE]
    /\ UNCHANGED <<db, tx, pc, mode, items, pos, processed, req, trace, runs, in1,
                   fails, kq, st>>

\* the state of the connections after the loop body of run r ended as `res`
Stored(r, res) ==
    [cc EXCEPT
        !.run[r].w = Written(r, res.t, res.e.co),
        !.run[r].pos = @ + 1,
        !.run[r].waiting = FALSE,
        !.ever = [events |-> res.t.events, signals |-> res.t.signals]]

\* one iteration of the loop of etl_borme, once the key it upserts is not
\* held by the other run.  An upsert that waited to insert a key the other run
\* has committed meanwhile raises, and the except clause of the loop takes it.
CLoop(r) ==
    /\ AtLoop(r)
    /\ ~Blocked(r)
    /\ cc' = Stored(r, LoopStep(r, IF Run(r).waiting /\ ~Unseen(r)
                                   THEN "upsert" ELSE "none"))
    /\ UNCHANGED <<db, tx, pc, mode, items, pos, processed, req, trace, runs, in1,
                   fails, kq, st>>

\* the two runs wait for each other: the store rolls the transaction of run r
\* back and its upsert raises; the except clause takes the error and the loop
\* goes on, in a transaction that has lost what the run had written
CDeadlock(r) ==
    /\ Blocked(r)
    /\ Blocked(Other(r))
    /\ cc' = [cc EXCEPT
                !.run[r].w = NoTables,
                !.run[r].pos = @ + 1,
                !.run[r].waiting = FALSE]
    /\ UNCHANGED <<db, tx, pc, mode, items, pos, processed, req, trace, runs, in1,
                   fails, kq, st>>

\* recompute_scores, the start of its MERGE: the statement reads the signals
\* table and the keys of the scores table
CRead(r) ==
    /\ Run(r).pc = "loop"
    /\ ~AtLoop(r)
    /\ cc' = [cc EXCEPT
                !.run[r].pc = "write",
                !.run[r].snap = [signals |-> db.signals \cup Run(r).w.signals,
                                 scored |-> KeysOf(db.scores)]]
    /\ UNCHANGED <<db, tx, pc, mode, items, pos, processed, req, trace, runs, in1,
                   fails, kq, st>>

\* recompute_scores, the writes of its MERGE, once the other run holds no
\* Score row of its source, and conn.commit(): the rows are computed from the
\* signals read and written over the Score rows committed by now, and the
\* writes of the run become committed.  An insert of a key that was committed
\* after the read raises, outside any try block: the run ends without a
\* commit and the store rolls its transaction back.
CWrite(r) ==
    /\ Run(r).pc = "write"
    /\ LET K == KeysOf(Run(r).snap.signals)
           dup == \E k \in K : k \notin Run(r).snap.scored /\ k \in KeysOf(db.scores)
           t == [companies |-> {}, events |-> {}, signals |-> Run(r).snap.signals,
                 scores |-> db.scores]
           res == recompute_scores(t, DEFAULT_VERSION)
           w == [Run(r).w EXCEPT !.scores = {x \in res.scores : x.company_key \in K}]
       IN  IF dup
           THEN /\ cc' = [cc EXCEPT !.run[r] = IdleRun]
                /\ UNCHANGED db
           ELSE /\ db' = [companies |-> Overlay(db.companies, w.companies),
                          events |-> db.events \cup w.events,
                          signals |-> db.signals \cup w.signals,
                          scores |-> Overlay(db.scores, w.scores)]
                /\ cc' = [cc EXCEPT
                            !.run[r] = IdleRun,
                            !.run[Other(r)].peer = IF InFlight(Other(r)) THEN w ELSE @,
                            !.last = [n |-> cc.last.n + 1, w |-> w,
                                      solo |-> Run(r).solo, peer |-> Run(r).peer,
                                      stale |-> \E x \in db.scores :
                                          x.score # ClampedSum(db, x.company_key)]]
    /\ UNCHANGED <<tx, pc, mode, items, pos, processed, req, trace, runs, in1,
                   fails, kq, st>>

ConcNext ==
    \/ \E r \in RunIds : CStart(r)
    \/ \E r \in RunIds : CWait(r)
    \/ \E r \in RunIds : CLoop(r)
    \/ \E r \in RunIds : CDeadlock(r)
    \/ \E r \in RunIds : CRead(r)
    \/ \E r \in RunIds : CWrite(r)

ConcSpec == Init /\ [][ConcNext]_vars

-----------------------------------------------------------------------------
(* C12: commutativity of concurrent company upserts.  When a run commits and
   a run that committed while it was in flight upserted a key it upserted too,
   the committed Company row of that key holds the name, province and region
   each of the two runs wrote: the row would be the same had the two committed
   in the other order. *)
Observed(c) == [name |-> c.name, province |-> c.province, ccaa |-> c.ccaa]

C12_Commutative ==
    \A k \in KeysOf(cc.last.w.companies) \cap KeysOf(cc.last.peer.companies) :
        \A c \in RowsOf(db.companies, k) :
            \A x \in RowsOf(cc.last.w.companies \cup cc.last.peer.companies, k) :
                Observed(c) = Observed(x)

(* C13: racing recomputes self-correct.  The Score rows the run that committed
   last wrote are the committed rows of their keys; and when that run had no
   other run in flight from its connection to its commit, every company with
   committed signals has a Score row with the clamped sum of the weights of its
   committed signals and the band of that score. *)
C13_SelfCorrect ==
    /\ \A x \in cc.last.w.scores : RowsOf(db.scores, x.company_key) = {x}
    /\ cc.last.solo =>
          \A k \in KeysOf(db.signals) :
              \E x \in db.scores :
                  /\ x.company_key = k
                  /\ x.score = ClampedSum(db, k)
                  /\ x.band = Band(x.score)

\* two runs have raced and left a Score row that was not the clamped sum of
\* the committed signals, and a run with no other run in flight has committed
\* after them and overwritten it
C13_Witness ==
    /\ cc.last.solo
    /\ cc.last.stale
    /\ \E x \in cc.last.w.scores : x.score = ClampedSum(db, x.company_key)

====
